---------------------------- MODULE Spec2Model ----------------------------
(***************************************************************************)
(* The PDF writer of tmp/pdfs/build_practice_timer_summary.py: the         *)
(* wrapping and escaping helpers, the layout loop over the sections, and   *)
(* the serialization of the placements into a one-page PDF file.           *)
(***************************************************************************)
EXTENDS Integers, Sequences, FiniteSets, TLC

VARIABLES
    pc,             \* the script's position
    run,            \* 1 in the first run of the script, 2 in the second
    sections,       \* the section list, the title first
    idx,            \* the index in sections of the loop's next section
    current_y,      \* the vertical cursor
    lines,          \* the placements
    content_stream, \* the encoded content stream
    objects,        \* the six objects
    xref_positions, \* the byte offset of each object
    output,         \* the header and the objects appended so far
    xref_start,     \* the byte offset of the cross-reference table
    xref,           \* the parts of the cross-reference table
    trailer,        \* the trailer
    pdf_bytes,      \* the whole file
    file,           \* the content of output/pdf/practice-timer-summary.pdf
    wrap_text,      \* wrap's text argument
    wrap_width,     \* wrap's width argument
    wrap_lines,     \* wrap's result
    esc_text,       \* escape_pdf_text's argument
    esc_out         \* escape_pdf_text's result

vars == <<pc, run, sections, idx, current_y, lines, content_stream, objects,
          xref_positions, output, xref_start, xref, trailer, pdf_bytes, file,
          wrap_text, wrap_width, wrap_lines, esc_text, esc_out>>

scriptVars == <<run, sections, idx, current_y, lines, content_stream, objects,
                xref_positions, output, xref_start, xref, trailer, pdf_bytes,
                file>>

wrapVars == <<wrap_text, wrap_width, wrap_lines>>

escVars == <<esc_text, esc_out>>

PAGE_WIDTH == 612
PAGE_HEIGHT == 792
MARGIN_X == 54
MARGIN_TOP == 54
MARGIN_BOTTOM == 54
TITLE_SIZE == 18
HEADING_SIZE == 12
BODY_SIZE == 11
LEADING == 14
MAX_CHARS_BODY == 90
MAX_CHARS_BODY_INDENT == 86

\* Bounds of the model.
MaxSections == 2    \* sections after the title in a generated section list
LongLines == 48     \* body lines of the long plain section
ManyItems == 30     \* items of the long bullet section
MaxTextLen == 4     \* characters of a text given to wrap
MaxWidth == 3       \* widths given to wrap
MaxEscLen == 4      \* characters of a text given to escape_pdf_text

\* sections[0]["text"]: 'Practice Timer - App Summary'
TitleText ==
    <<80, 114, 97, 99, 116, 105, 99, 101, 32, 84, 105, 109, 101, 114, 32, 45, 32, 65, 112, 112,
    32, 83, 117, 109, 109, 97, 114, 121>>

\* what_it_is: 'Practice Timer is a React/Vite web app for running practice ' ...
what_it_is ==
    <<80, 114, 97, 99, 116, 105, 99, 101, 32, 84, 105, 109, 101, 114, 32, 105, 115, 32, 97, 32,
    82, 101, 97, 99, 116, 47, 86, 105, 116, 101, 32, 119, 101, 98, 32, 97, 112, 112, 32, 102,
    111, 114, 32, 114, 117, 110, 110, 105, 110, 103, 32, 112, 114, 97, 99, 116, 105, 99, 101,
    32, 115, 101, 115, 115, 105, 111, 110, 115, 32, 119, 105, 116, 104, 32, 80, 111, 109, 111,
    100, 111, 114, 111, 45, 115, 116, 121, 108, 101, 32, 119, 111, 114, 107, 32, 97, 110, 100,
    32, 98, 114, 101, 97, 107, 32, 99, 121, 99, 108, 101, 115, 44, 32, 110, 111, 116, 105, 102,
    105, 99, 97, 116, 105, 111, 110, 115, 44, 32, 97, 110, 100, 32, 80, 87, 65, 32, 115, 117,
    112, 112, 111, 114, 116, 46, 32, 73, 116, 32, 102, 111, 99, 117, 115, 101, 115, 32, 111,
    110, 32, 114, 101, 108, 105, 97, 98, 108, 101, 32, 116, 105, 109, 105, 110, 103, 32, 97, 99,
    114, 111, 115, 115, 32, 100, 101, 115, 107, 116, 111, 112, 32, 97, 110, 100, 32, 109, 111,
    98, 105, 108, 101, 32, 98, 114, 111, 119, 115, 101, 114, 115, 44, 32, 105, 110, 99, 108,
    117, 100, 105, 110, 103, 32, 105, 79, 83, 46>>

\* features: the items of 'What it does'
features == <<
    \* 'Pomodoro-style work and break timer with customizable durations'
    <<80, 111, 109, 111, 100, 111, 114, 111, 45, 115, 116, 121, 108, 101, 32, 119, 111, 114,
    107, 32, 97, 110, 100, 32, 98, 114, 101, 97, 107, 32, 116, 105, 109, 101, 114, 32, 119, 105,
    116, 104, 32, 99, 117, 115, 116, 111, 109, 105, 122, 97, 98, 108, 101, 32, 100, 117, 114,
    97, 116, 105, 111, 110, 115>>,
    \* 'Iteration tracking across multiple work/break cycles'
    <<73, 116, 101, 114, 97, 116, 105, 111, 110, 32, 116, 114, 97, 99, 107, 105, 110, 103, 32,
    97, 99, 114, 111, 115, 115, 32, 109, 117, 108, 116, 105, 112, 108, 101, 32, 119, 111, 114,
    107, 47, 98, 114, 101, 97, 107, 32, 99, 121, 99, 108, 101, 115>>,
    \* 'Sound alerts when sessions complete'
    <<83, 111, 117, 110, 100, 32, 97, 108, 101, 114, 116, 115, 32, 119, 104, 101, 110, 32, 115,
    101, 115, 115, 105, 111, 110, 115, 32, 99, 111, 109, 112, 108, 101, 116, 101>>,
    \* 'Browser notifications for completion events'
    <<66, 114, 111, 119, 115, 101, 114, 32, 110, 111, 116, 105, 102, 105, 99, 97, 116, 105, 111,
    110, 115, 32, 102, 111, 114, 32, 99, 111, 109, 112, 108, 101, 116, 105, 111, 110, 32, 101,
    118, 101, 110, 116, 115>>,
    \* 'PWA install support with service worker caching'
    <<80, 87, 65, 32, 105, 110, 115, 116, 97, 108, 108, 32, 115, 117, 112, 112, 111, 114, 116,
    32, 119, 105, 116, 104, 32, 115, 101, 114, 118, 105, 99, 101, 32, 119, 111, 114, 107, 101,
    114, 32, 99, 97, 99, 104, 105, 110, 103>>,
    \* 'iOS background optimizations (background timer and wake-lock strategies)'
    <<105, 79, 83, 32, 98, 97, 99, 107, 103, 114, 111, 117, 110, 100, 32, 111, 112, 116, 105,
    109, 105, 122, 97, 116, 105, 111, 110, 115, 32, 40, 98, 97, 99, 107, 103, 114, 111, 117,
    110, 100, 32, 116, 105, 109, 101, 114, 32, 97, 110, 100, 32, 119, 97, 107, 101, 45, 108,
    111, 99, 107, 32, 115, 116, 114, 97, 116, 101, 103, 105, 101, 115, 41>>,
    \* 'Dark mode and responsive layout for desktop and mobile'
    <<68, 97, 114, 107, 32, 109, 111, 100, 101, 32, 97, 110, 100, 32, 114, 101, 115, 112, 111,
    110, 115, 105, 118, 101, 32, 108, 97, 121, 111, 117, 116, 32, 102, 111, 114, 32, 100, 101,
    115, 107, 116, 111, 112, 32, 97, 110, 100, 32, 109, 111, 98, 105, 108, 101>>
    >>

\* how_it_works: the items of 'How it works'
how_it_works == <<
    \* 'UI: React app in `client/src` styled with Tailwind; entry point in `client/src/main.tsx`.'
    <<85, 73, 58, 32, 82, 101, 97, 99, 116, 32, 97, 112, 112, 32, 105, 110, 32, 96, 99, 108,
    105, 101, 110, 116, 47, 115, 114, 99, 96, 32, 115, 116, 121, 108, 101, 100, 32, 119, 105,
    116, 104, 32, 84, 97, 105, 108, 119, 105, 110, 100, 59, 32, 101, 110, 116, 114, 121, 32,
    112, 111, 105, 110, 116, 32, 105, 110, 32, 96, 99, 108, 105, 101, 110, 116, 47, 115, 114,
    99, 47, 109, 97, 105, 110, 46, 116, 115, 120, 96, 46>>,
    \* 'State: Zustand store in `client/src/stores/timerStore.ts` holds timer state and settings.'
    <<83, 116, 97, 116, 101, 58, 32, 90, 117, 115, 116, 97, 110, 100, 32, 115, 116, 111, 114,
    101, 32, 105, 110, 32, 96, 99, 108, 105, 101, 110, 116, 47, 115, 114, 99, 47, 115, 116, 111,
    114, 101, 115, 47, 116, 105, 109, 101, 114, 83, 116, 111, 114, 101, 46, 116, 115, 96, 32,
    104, 111, 108, 100, 115, 32, 116, 105, 109, 101, 114, 32, 115, 116, 97, 116, 101, 32, 97,
    110, 100, 32, 115, 101, 116, 116, 105, 110, 103, 115, 46>>,
    \* 'Timing: Web Worker in `client/src/workers/timerWorker.ts` drives ticks and completion messages.'
    <<84, 105, 109, 105, 110, 103, 58, 32, 87, 101, 98, 32, 87, 111, 114, 107, 101, 114, 32,
    105, 110, 32, 96, 99, 108, 105, 101, 110, 116, 47, 115, 114, 99, 47, 119, 111, 114, 107,
    101, 114, 115, 47, 116, 105, 109, 101, 114, 87, 111, 114, 107, 101, 114, 46, 116, 115, 96,
    32, 100, 114, 105, 118, 101, 115, 32, 116, 105, 99, 107, 115, 32, 97, 110, 100, 32, 99, 111,
    109, 112, 108, 101, 116, 105, 111, 110, 32, 109, 101, 115, 115, 97, 103, 101, 115, 46>>,
    \* 'Background: Service worker `client/public/sw.js` caches assets and runs background sync/notifications; registered in `client/src/main.tsx`.'
    <<66, 97, 99, 107, 103, 114, 111, 117, 110, 100, 58, 32, 83, 101, 114, 118, 105, 99, 101,
    32, 119, 111, 114, 107, 101, 114, 32, 96, 99, 108, 105, 101, 110, 116, 47, 112, 117, 98,
    108, 105, 99, 47, 115, 119, 46, 106, 115, 96, 32, 99, 97, 99, 104, 101, 115, 32, 97, 115,
    115, 101, 116, 115, 32, 97, 110, 100, 32, 114, 117, 110, 115, 32, 98, 97, 99, 107, 103, 114,
    111, 117, 110, 100, 32, 115, 121, 110, 99, 47, 110, 111, 116, 105, 102, 105, 99, 97, 116,
    105, 111, 110, 115, 59, 32, 114, 101, 103, 105, 115, 116, 101, 114, 101, 100, 32, 105, 110,
    32, 96, 99, 108, 105, 101, 110, 116, 47, 115, 114, 99, 47, 109, 97, 105, 110, 46, 116, 115,
    120, 96, 46>>,
    \* 'Persistence: Settings stored in localStorage via `client/src/lib/localStorage.ts`.'
    <<80, 101, 114, 115, 105, 115, 116, 101, 110, 99, 101, 58, 32, 83, 101, 116, 116, 105, 110,
    103, 115, 32, 115, 116, 111, 114, 101, 100, 32, 105, 110, 32, 108, 111, 99, 97, 108, 83,
    116, 111, 114, 97, 103, 101, 32, 118, 105, 97, 32, 96, 99, 108, 105, 101, 110, 116, 47, 115,
    114, 99, 47, 108, 105, 98, 47, 108, 111, 99, 97, 108, 83, 116, 111, 114, 97, 103, 101, 46,
    116, 115, 96, 46>>,
    \* 'Data flow: UI -> Zustand store -> Web Worker -> store -> UI; store posts updates to service worker for background handling.'
    <<68, 97, 116, 97, 32, 102, 108, 111, 119, 58, 32, 85, 73, 32, 45, 62, 32, 90, 117, 115,
    116, 97, 110, 100, 32, 115, 116, 111, 114, 101, 32, 45, 62, 32, 87, 101, 98, 32, 87, 111,
    114, 107, 101, 114, 32, 45, 62, 32, 115, 116, 111, 114, 101, 32, 45, 62, 32, 85, 73, 59, 32,
    115, 116, 111, 114, 101, 32, 112, 111, 115, 116, 115, 32, 117, 112, 100, 97, 116, 101, 115,
    32, 116, 111, 32, 115, 101, 114, 118, 105, 99, 101, 32, 119, 111, 114, 107, 101, 114, 32,
    102, 111, 114, 32, 98, 97, 99, 107, 103, 114, 111, 117, 110, 100, 32, 104, 97, 110, 100,
    108, 105, 110, 103, 46>>
    >>

\* how_to_run: the items of 'How to run'
how_to_run == <<
    \* 'Install Node.js v16+ (prerequisite from README).'
    <<73, 110, 115, 116, 97, 108, 108, 32, 78, 111, 100, 101, 46, 106, 115, 32, 118, 49, 54, 43,
    32, 40, 112, 114, 101, 114, 101, 113, 117, 105, 115, 105, 116, 101, 32, 102, 114, 111, 109,
    32, 82, 69, 65, 68, 77, 69, 41, 46>>,
    \* 'Run `npm install` from the repo root.'
    <<82, 117, 110, 32, 96, 110, 112, 109, 32, 105, 110, 115, 116, 97, 108, 108, 96, 32, 102,
    114, 111, 109, 32, 116, 104, 101, 32, 114, 101, 112, 111, 32, 114, 111, 111, 116, 46>>,
    \* 'Run `npm run dev` to start the Vite dev server.'
    <<82, 117, 110, 32, 96, 110, 112, 109, 32, 114, 117, 110, 32, 100, 101, 118, 96, 32, 116,
    111, 32, 115, 116, 97, 114, 116, 32, 116, 104, 101, 32, 86, 105, 116, 101, 32, 100, 101,
    118, 32, 115, 101, 114, 118, 101, 114, 46>>
    >>

\* the titles of the five sections after the title, in order
SectionTitles == <<
    \* 'What it is'
    <<87, 104, 97, 116, 32, 105, 116, 32, 105, 115>>,
    \* "Who it's for"
    <<87, 104, 111, 32, 105, 116, 39, 115, 32, 102, 111, 114>>,
    \* 'What it does'
    <<87, 104, 97, 116, 32, 105, 116, 32, 100, 111, 101, 115>>,
    \* 'How it works'
    <<72, 111, 119, 32, 105, 116, 32, 119, 111, 114, 107, 115>>,
    \* 'How to run'
    <<72, 111, 119, 32, 116, 111, 32, 114, 117, 110>>
    >>

\* 'Not found in repo.'
NotFound ==
    <<78, 111, 116, 32, 102, 111, 117, 110, 100, 32, 105, 110, 32, 114, 101, 112, 111, 46>>

\* 'Helvetica-Bold'
HelveticaBold ==
    <<72, 101, 108, 118, 101, 116, 105, 99, 97, 45, 66, 111, 108, 100>>

\* 'Helvetica'
Helvetica ==
    <<72, 101, 108, 118, 101, 116, 105, 99, 97>>

\* '1 0 obj\n<< /Type /Catalog /Pages 2 0 R >>\nendobj\n'
Object1 ==
    <<49, 32, 48, 32, 111, 98, 106, 10, 60, 60, 32, 47, 84, 121, 112, 101, 32, 47, 67, 97, 116,
    97, 108, 111, 103, 32, 47, 80, 97, 103, 101, 115, 32, 50, 32, 48, 32, 82, 32, 62, 62, 10,
    101, 110, 100, 111, 98, 106, 10>>

\* '2 0 obj\n<< /Type /Pages /Kids [3 0 R] /Count 1 >>\nendobj\n'
Object2 ==
    <<50, 32, 48, 32, 111, 98, 106, 10, 60, 60, 32, 47, 84, 121, 112, 101, 32, 47, 80, 97, 103,
    101, 115, 32, 47, 75, 105, 100, 115, 32, 91, 51, 32, 48, 32, 82, 93, 32, 47, 67, 111, 117,
    110, 116, 32, 49, 32, 62, 62, 10, 101, 110, 100, 111, 98, 106, 10>>

\* '3 0 obj\n<< /Type /Page /Parent 2 0 R /MediaBox [0 0 '
Object3Head ==
    <<51, 32, 48, 32, 111, 98, 106, 10, 60, 60, 32, 47, 84, 121, 112, 101, 32, 47, 80, 97, 103,
    101, 32, 47, 80, 97, 114, 101, 110, 116, 32, 50, 32, 48, 32, 82, 32, 47, 77, 101, 100, 105,
    97, 66, 111, 120, 32, 91, 48, 32, 48, 32>>

\* '] /Resources << /Font << /Helvetica 4 0 R /Helvetica-Bold 5 0 R >> >> /Contents 6 0 R >>\nendobj\n'
Object3Tail ==
    <<93, 32, 47, 82, 101, 115, 111, 117, 114, 99, 101, 115, 32, 60, 60, 32, 47, 70, 111, 110,
    116, 32, 60, 60, 32, 47, 72, 101, 108, 118, 101, 116, 105, 99, 97, 32, 52, 32, 48, 32, 82,
    32, 47, 72, 101, 108, 118, 101, 116, 105, 99, 97, 45, 66, 111, 108, 100, 32, 53, 32, 48, 32,
    82, 32, 62, 62, 32, 62, 62, 32, 47, 67, 111, 110, 116, 101, 110, 116, 115, 32, 54, 32, 48,
    32, 82, 32, 62, 62, 10, 101, 110, 100, 111, 98, 106, 10>>

\* '4 0 obj\n<< /Type /Font /Subtype /Type1 /BaseFont /Helvetica >>\nendobj\n'
Object4 ==
    <<52, 32, 48, 32, 111, 98, 106, 10, 60, 60, 32, 47, 84, 121, 112, 101, 32, 47, 70, 111, 110,
    116, 32, 47, 83, 117, 98, 116, 121, 112, 101, 32, 47, 84, 121, 112, 101, 49, 32, 47, 66, 97,
    115, 101, 70, 111, 110, 116, 32, 47, 72, 101, 108, 118, 101, 116, 105, 99, 97, 32, 62, 62,
    10, 101, 110, 100, 111, 98, 106, 10>>

\* '5 0 obj\n<< /Type /Font /Subtype /Type1 /BaseFont /Helvetica-Bold >>\nendobj\n'
Object5 ==
    <<53, 32, 48, 32, 111, 98, 106, 10, 60, 60, 32, 47, 84, 121, 112, 101, 32, 47, 70, 111, 110,
    116, 32, 47, 83, 117, 98, 116, 121, 112, 101, 32, 47, 84, 121, 112, 101, 49, 32, 47, 66, 97,
    115, 101, 70, 111, 110, 116, 32, 47, 72, 101, 108, 118, 101, 116, 105, 99, 97, 45, 66, 111,
    108, 100, 32, 62, 62, 10, 101, 110, 100, 111, 98, 106, 10>>

\* '6 0 obj\n<< /Length '
Object6Head ==
    <<54, 32, 48, 32, 111, 98, 106, 10, 60, 60, 32, 47, 76, 101, 110, 103, 116, 104, 32>>

\* ' >>\nstream\n'
Object6Mid ==
    <<32, 62, 62, 10, 115, 116, 114, 101, 97, 109, 10>>

\* 'endstream\nendobj\n'
Object6Tail ==
    <<101, 110, 100, 115, 116, 114, 101, 97, 109, 10, 101, 110, 100, 111, 98, 106, 10>>

\* '%PDF-1.4\n'
PdfHeader ==
    <<37, 80, 68, 70, 45, 49, 46, 52, 10>>

\* 'xref\n'
XrefKeyword ==
    <<120, 114, 101, 102, 10>>

\* '0000000000 65535 f \n'
XrefFree ==
    <<48, 48, 48, 48, 48, 48, 48, 48, 48, 48, 32, 54, 53, 53, 51, 53, 32, 102, 32, 10>>

\* ' 00000 n \n'
XrefInUse ==
    <<32, 48, 48, 48, 48, 48, 32, 110, 32, 10>>

\* 'trailer\n<< /Size '
TrailerHead ==
    <<116, 114, 97, 105, 108, 101, 114, 10, 60, 60, 32, 47, 83, 105, 122, 101, 32>>

\* ' /Root 1 0 R >>\nstartxref\n'
TrailerMid ==
    <<32, 47, 82, 111, 111, 116, 32, 49, 32, 48, 32, 82, 32, 62, 62, 10, 115, 116, 97, 114, 116,
    120, 114, 101, 102, 10>>

\* '%%EOF\n'
TrailerTail ==
    <<37, 37, 69, 79, 70, 10>>

\* 'BT\n'
OpBT ==
    <<66, 84, 10>>

\* ' Tf\n'
OpTf ==
    <<32, 84, 102, 10>>

\* '1 0 0 1 '
OpTmHead ==
    <<49, 32, 48, 32, 48, 32, 49, 32>>

\* ' Tm\n'
OpTm ==
    <<32, 84, 109, 10>>

\* ') Tj\n'
OpTj ==
    <<41, 32, 84, 106, 10>>

\* 'ET\n'
OpET ==
    <<69, 84, 10>>

(***************************************************************************)
(* Text is modelled as a sequence of Unicode code points (Python str);     *)
(* bytes objects are sequences of byte values 0..255.                      *)
(***************************************************************************)

\* The concatenation of f[lo], ..., f[hi] ("".join / b"".join), by halving.
RECURSIVE JoinRange(_, _, _)
JoinRange(f, lo, hi) ==
    IF lo > hi THEN <<>>
    ELSE IF lo = hi THEN f[lo]
    ELSE LET mid == (lo + hi) \div 2
         IN  JoinRange(f, lo, mid) \o JoinRange(f, mid + 1, hi)

Join(seqs) == JoinRange(seqs, 1, Len(seqs))

\* str.replace(old, new) for a one-character old.
Replace(text, old, new) ==
    Join([i \in 1..Len(text) |-> IF text[i] = old THEN new ELSE <<text[i]>>])

\* textwrap._whitespace = '\t\n\x0b\x0c\r ': what the splitter and the
\* whitespace translation treat as whitespace.
TextwrapWhitespace == {9, 10, 11, 12, 13, 32}

\* The characters str.strip() / str.split() / str.isspace() treat as whitespace.
PyWhitespace ==
    {9, 10, 11, 12, 13, 28, 29, 30, 31, 32, 133, 160, 5760} \cup (8192..8202)
        \cup {8232, 8233, 8239, 8287, 12288}

\* chunk.strip() == ''
IsBlank(chunk) == \A i \in 1..Len(chunk) : chunk[i] \in PyWhitespace

Spaces(n) == [i \in 1..n |-> 32]

\* The column (characters since the last '\n' or '\r') at the end of out.
Column(out) ==
    LET brk == {i \in 1..Len(out) : out[i] \in {10, 13}}
    IN  IF brk = {} THEN Len(out)
        ELSE Len(out) - (CHOOSE i \in brk : \A j \in brk : j <= i)

\* str.expandtabs(8): a tab becomes the spaces up to the next multiple of 8
\* columns; the column restarts after '\n' and '\r'.
RECURSIVE expandtabs(_, _)
expandtabs(out, rest) ==
    LET tabs == {i \in 1..Len(rest) : rest[i] = 9}
    IN  IF tabs = {} THEN out \o rest
        ELSE LET p    == CHOOSE i \in tabs : \A j \in tabs : i <= j
                 pre  == out \o SubSeq(rest, 1, p - 1)
                 incr == 8 - (Column(pre) % 8)
             IN  expandtabs(pre \o Spaces(incr), SubSeq(rest, p + 1, Len(rest)))

\* TextWrapper._munge_whitespace with expand_tabs and replace_whitespace on.
munge_whitespace(text) ==
    LET expanded == expandtabs(<<>>, text)
    IN  [i \in 1..Len(expanded) |->
            IF expanded[i] \in TextwrapWhitespace THEN 32 ELSE expanded[i]]

\* TextWrapper._split with break_on_hyphens=False: wordsep_simple_re.split and
\* the filter of empty pieces give the maximal runs of whitespace and of
\* non-whitespace, in order.
split_chunks(text) ==
    LET starts == {i \in 1..Len(text) :
                      \/ i = 1
                      \/ (text[i] \in TextwrapWhitespace) # (text[i - 1] \in TextwrapWhitespace)}
        start(k) == CHOOSE i \in starts : Cardinality({j \in starts : j <= i}) = k
        n == Cardinality(starts)
    IN  [k \in 1..n |->
            SubSeq(text, start(k), IF k = n THEN Len(text) ELSE start(k + 1) - 1)]

\* The test of the inner loop of _wrap_chunks: the chunk still fits on the line.
MutFits(cur_len, l, width) == cur_len + l <= width + 1

fits(cur_len, l, width) == cur_len + l <= width

\* The inner loop of TextWrapper._wrap_chunks: chunks move onto the current
\* line while they fit.
RECURSIVE fill_line(_, _, _, _)
fill_line(chunks, cur_line, cur_len, width) ==
    IF chunks # <<>> /\ fits(cur_len, Len(Head(chunks)), width)
    THEN fill_line(Tail(chunks), Append(cur_line, Head(chunks)),
                   cur_len + Len(Head(chunks)), width)
    ELSE [cur_line |-> cur_line, chunks |-> chunks]

\* _handle_long_word as it would run with break_long_words=True: the part of
\* the long chunk that fits goes on the current line.
MutHandleLongWord(chunks, cur_line, width) ==
    LET cur_len    == Len(Join(cur_line))
        space_left == IF width < 1 THEN 1 ELSE width - cur_len
        chunk      == Head(chunks)
    IN  [cur_line |-> Append(cur_line, SubSeq(chunk, 1, space_left)),
         chunks   |-> <<SubSeq(chunk, space_left + 1, Len(chunk))>> \o Tail(chunks)]

\* TextWrapper._handle_long_word with break_long_words=False: a chunk longer
\* than the width goes whole on a line of its own, and only on an empty line.
handle_long_word(chunks, cur_line, width) ==
    IF cur_line = <<>>
    THEN [cur_line |-> <<Head(chunks)>>, chunks |-> Tail(chunks)]
    ELSE [cur_line |-> cur_line, chunks |-> chunks]

\* TextWrapper._wrap_chunks with drop_whitespace on, no indents, no max_lines.
RECURSIVE wrap_chunks(_, _, _)
wrap_chunks(chunks, width, lines_) ==
    IF chunks = <<>> THEN lines_
    ELSE LET c1     == IF IsBlank(Head(chunks)) /\ lines_ # <<>>
                       THEN Tail(chunks) ELSE chunks
             filled == fill_line(c1, <<>>, 0, width)
             longw  == IF filled.chunks # <<>> /\ Len(Head(filled.chunks)) > width
                       THEN handle_long_word(filled.chunks, filled.cur_line, width)
                       ELSE filled
             cur    == longw.cur_line
             kept   == IF cur # <<>> /\ IsBlank(cur[Len(cur)])
                       THEN SubSeq(cur, 1, Len(cur) - 1) ELSE cur
         IN  wrap_chunks(longw.chunks, width,
                         IF kept # <<>> THEN Append(lines_, Join(kept)) ELSE lines_)

\* wrap(text, width): textwrap.wrap without breaking long words or hyphens.
wrap(text, width) == wrap_chunks(split_chunks(munge_whitespace(text)), width, <<>>)

\* escape_pdf_text, as if the backslash were escaped last.
MutEscapePdfText(text) ==
    Replace(Replace(Replace(text, 40, <<92, 40>>), 41, <<92, 41>>), 92, <<92, 92>>)

\* escape_pdf_text: backslash first, then the two parentheses.
escape_pdf_text(text) ==
    Replace(Replace(Replace(text, 92, <<92, 92>>), 40, <<92, 40>>), 41, <<92, 41>>)

(***************************************************************************)
(* Number formatting                                                       *)
(***************************************************************************)

\* The decimal digits of n >= 0, as characters.
RECURSIVE Digits(_)
Digits(n) == IF n < 10 THEN <<48 + n>> ELSE Append(Digits(n \div 10), 48 + (n % 10))

\* f"{n}" for an int.
ToDec(n) == IF n < 0 THEN <<45>> \o Digits(0 - n) ELSE Digits(n)

\* f"{pos:010d}": zero-padded to ten characters, the sign first.
Pad10(pos) ==
    LET d == Digits(IF pos < 0 THEN 0 - pos ELSE pos)
        w == IF pos < 0 THEN 9 ELSE 10
        z == [i \in 1..(IF Len(d) < w THEN w - Len(d) ELSE 0) |-> 48]
    IN  (IF pos < 0 THEN <<45>> ELSE <<>>) \o z \o d

(***************************************************************************)
(* Content assembly                                                        *)
(***************************************************************************)

\* The section list the script builds.
HardcodedSections == <<
    [type |-> "title", text |-> TitleText],
    [type |-> "section", title |-> SectionTitles[1], body |-> wrap(what_it_is, MAX_CHARS_BODY)],
    [type |-> "section", title |-> SectionTitles[2], body |-> <<NotFound>>],
    [type |-> "bullets", title |-> SectionTitles[3], items |-> features],
    [type |-> "bullets", title |-> SectionTitles[4], items |-> how_it_works],
    [type |-> "bullets", title |-> SectionTitles[5], items |-> how_to_run]
    >>

(***************************************************************************)
(* Layout                                                                  *)
(***************************************************************************)

\* second, once first has its value: the passes of a loop are evaluated in
\* order, each from the finished result of the passes before it.
Then(first, second) == IF first = first THEN second ELSE second

\* add_text: one more placement at the end of the list.
add_text(lines_, text, x, y, font, size) ==
    Append(lines_, [text |-> text, x |-> x, y |-> y, font |-> font, size |-> size])

\* current_y -= 16, after a heading.
after_heading(y) == y - 16

\* The cursor left where it was after a body line.
MutAfterLine(y) == y

\* current_y -= LEADING, after a body or bullet line.
after_line(y) == y - LEADING

\* current_y -= 4, after a section's lines.
after_section(y) == y - 4

\* The overflow test against the page's lower edge instead of the margin.
MutOverflow(y) == y < 0

\* current_y < MARGIN_BOTTOM: the loop stops after this section.
overflow(y) == y < MARGIN_BOTTOM

\* One pass of the loop over section["body"]: the line placed, the cursor
\* lowered.
place_body_line(st, line) ==
    [lines |-> add_text(st.lines, line, MARGIN_X, st.y, Helvetica, BODY_SIZE),
     y     |-> after_line(st.y)]

\* The loop over section["body"], passes lo to hi in order (the range is
\* halved to keep the evaluation shallow).
RECURSIVE place_body(_, _, _, _)
place_body(st, body, lo, hi) ==
    IF lo > hi THEN st
    ELSE IF lo = hi THEN place_body_line(st, body[lo])
    ELSE LET mid   == (lo + hi) \div 2
             first == place_body(st, body, lo, mid)
         IN  Then(first, place_body(first, body, mid + 1, hi))

\* One pass of the loop over enumerate(wrapped): "- " before the first line
\* of an item, two spaces before the others.
place_wrapped_line(st, i, line) ==
    LET prefix == IF i = 1 THEN <<45, 32>> ELSE <<32, 32>>
    IN  [lines |-> add_text(st.lines, prefix \o line, MARGIN_X, st.y, Helvetica, BODY_SIZE),
         y     |-> after_line(st.y)]

\* The loop over enumerate(wrapped), passes lo to hi in order.
RECURSIVE place_wrapped(_, _, _, _)
place_wrapped(st, wrapped, lo, hi) ==
    IF lo > hi THEN st
    ELSE IF lo = hi THEN place_wrapped_line(st, lo, wrapped[lo])
    ELSE LET mid   == (lo + hi) \div 2
             first == place_wrapped(st, wrapped, lo, mid)
         IN  Then(first, place_wrapped(first, wrapped, mid + 1, hi))

\* One pass of the loop over section["items"]: the item wrapped on its own.
place_item(st, item) ==
    LET wrapped == wrap(item, MAX_CHARS_BODY_INDENT)
    IN  place_wrapped(st, wrapped, 1, Len(wrapped))

\* The loop over section["items"], passes lo to hi in order.
RECURSIVE place_items(_, _, _, _)
place_items(st, items, lo, hi) ==
    IF lo > hi THEN st
    ELSE IF lo = hi THEN place_item(st, items[lo])
    ELSE LET mid   == (lo + hi) \div 2
             first == place_items(st, items, lo, mid)
         IN  Then(first, place_items(first, items, mid + 1, hi))

\* The body of the loop over sections[1:], up to the overflow test.
layout_section(lines_, y, section) ==
    LET head == [lines |-> add_text(lines_, section.title, MARGIN_X, y,
                                    HelveticaBold, HEADING_SIZE),
                 y     |-> after_heading(y)]
    IN  IF section.type = "section"
        THEN LET st == place_body(head, section.body, 1, Len(section.body))
             IN  [lines |-> st.lines, y |-> after_section(st.y)]
        ELSE IF section.type = "bullets"
        THEN LET st == place_items(head, section.items, 1, Len(section.items))
             IN  [lines |-> st.lines, y |-> after_section(st.y)]
        ELSE head

(***************************************************************************)
(* Serialization                                                           *)
(***************************************************************************)

\* One element of content: the five operators of one placement.
content_entry(line) ==
    OpBT
    \o <<47>> \o line.font \o <<32>> \o ToDec(line.size) \o OpTf
    \o OpTmHead \o ToDec(line.x) \o <<32>> \o ToDec(line.y) \o OpTm
    \o <<40>> \o escape_pdf_text(line.text) \o OpTj
    \o OpET

\* str.encode("latin-1", "replace"): a character above U+00FF becomes "?".
encode_latin1(text) == [i \in 1..Len(text) |-> IF text[i] > 255 THEN 63 ELSE text[i]]

\* content_stream = "".join(content).encode("latin-1", "replace")
build_content_stream(lines_) ==
    encode_latin1(Join([i \in 1..Len(lines_) |-> content_entry(lines_[i])]))

\* Object 6 with a /Length that leaves out the stream's last newline.
MutContentsObject(stream) ==
    Object6Head \o ToDec(IF stream = <<>> THEN 0 ELSE Len(stream) - 1) \o Object6Mid
    \o stream \o Object6Tail

\* Object 6: the /Length dictionary, the stream and its end.
contents_object(stream) ==
    Object6Head \o ToDec(Len(stream)) \o Object6Mid \o stream \o Object6Tail

\* The six objects, in order.
build_objects(stream) == <<
    Object1,
    Object2,
    Object3Head \o ToDec(PAGE_WIDTH) \o <<32>> \o ToDec(PAGE_HEIGHT) \o Object3Tail,
    Object4,
    Object5,
    contents_object(stream)
    >>

\* The lengths of parts[k], ..., parts[Len(parts)], summed.
RECURSIVE sum_len(_, _)
sum_len(parts, k) == IF k > Len(parts) THEN 0 ELSE Len(parts[k]) + sum_len(parts, k + 1)

\* The summed length of every part but the first (the header line).
MutPosition(parts) == sum_len(parts, 2)

\* sum(len(part) for part in output)
position(parts) == sum_len(parts, 1)

\* The loop over objects: each object's position is taken, then the object
\* is appended to output.
RECURSIVE collect(_, _, _)
collect(st, objs, k) ==
    IF k > Len(objs) THEN st
    ELSE collect([xref_positions |-> Append(st.xref_positions, position(st.output)),
                  output         |-> Append(st.output, objs[k])],
                 objs, k + 1)

\* xref: the keyword, the subsection header, the free entry, one entry per
\* position.
build_xref(objs, positions) ==
    <<XrefKeyword, <<48, 32>> \o ToDec(Len(objs) + 1) \o <<10>>, XrefFree>>
    \o [i \in 1..Len(positions) |-> Pad10(positions[i]) \o XrefInUse]

\* trailer
build_trailer(objs, start) ==
    TrailerHead \o ToDec(Len(objs) + 1) \o TrailerMid \o ToDec(start) \o <<10>> \o TrailerTail

\* Path.write_bytes: the file holds data and nothing else.
write_bytes(old, data) == data

(***************************************************************************)
(* The inputs                                                              *)
(***************************************************************************)

\* Every sequence over S of length at most n.
SeqsUpTo(S, n) == UNION {[1..k -> S] : k \in 0..n}

\* Sections a generated list draws from: a short one, an empty one, one
\* longer than the page, one with characters that are escaped or replaced,
\* bullets with an empty item, bullets with an item that wraps, and a long
\* list of bullets.
PoolSections == {
    [type |-> "section", title |-> <<65>>, body |-> << <<120, 32, 121>> >>],
    [type |-> "section", title |-> <<66>>, body |-> <<>>],
    [type |-> "section", title |-> <<76>>, body |-> [k \in 1..LongLines |-> <<122>>]],
    [type |-> "section", title |-> <<40, 69, 41>>,
     body |-> << <<97, 92, 98, 32, 40, 99, 41>>, <<233, 8212, 252>> >>],
    [type |-> "bullets", title |-> <<67>>, items |-> << <<>>, <<104, 105, 32, 40, 120, 41>> >>],
    [type |-> "bullets", title |-> <<87>>, items |-> <<how_it_works[4]>>],
    [type |-> "bullets", title |-> <<81>>, items |-> [k \in 1..ManyItems |-> <<113>>]]
    }

SectionLists ==
    {HardcodedSections}
        \cup {<<[type |-> "title", text |-> TitleText]>> \o s :
                 s \in SeqsUpTo(PoolSections, MaxSections)}

\* Characters of the texts given to wrap: a letter, a hyphen, a space, a
\* newline, a tab and a no-break space.
WrapAlphabet == {97, 45, 32, 10, 9, 160}

\* Characters of the texts given to escape_pdf_text.
EscAlphabet == {92, 40, 41, 97}

(***************************************************************************)
(* The script                                                              *)
(***************************************************************************)

\* The state at the start of a run, before the layout.
Fresh ==
    /\ idx = 2
    /\ current_y = 0
    /\ lines = <<>>
    /\ content_stream = <<>>
    /\ objects = <<>>
    /\ xref_positions = <<>>
    /\ output = <<>>
    /\ xref_start = 0
    /\ xref = <<>>
    /\ trailer = <<>>
    /\ pdf_bytes = <<>>

IdleScript ==
    /\ run = 1
    /\ sections = <<>>
    /\ Fresh
    /\ file = <<>>

IdleWrap == wrap_text = <<>> /\ wrap_width = 1 /\ wrap_lines = <<>>

IdleEsc == esc_text = <<>> /\ esc_out = <<>>

Init ==
    /\ pc = "title"
    /\ run = 1
    /\ sections \in SectionLists
    /\ Fresh
    /\ file = <<>>
    /\ IdleWrap
    /\ IdleEsc

\* The title is placed at the top and the cursor lowered by 22.
PlaceTitle ==
    /\ pc = "title"
    /\ lines' = add_text(<<>>, sections[1].text, MARGIN_X, PAGE_HEIGHT - MARGIN_TOP,
                         HelveticaBold, TITLE_SIZE)
    /\ current_y' = PAGE_HEIGHT - MARGIN_TOP - 22
    /\ idx' = 2
    /\ pc' = "layout"
    /\ UNCHANGED <<run, sections, content_stream, objects, xref_positions, output,
                   xref_start, xref, trailer, pdf_bytes, file>>
    /\ UNCHANGED <<wrapVars, escVars>>

\* One pass of the loop over sections[1:]: the heading, the lines, the gap,
\* and the overflow test that ends the loop.
LayoutSection ==
    /\ pc = "layout"
    /\ idx <= Len(sections)
    /\ LET st == layout_section(lines, current_y, sections[idx])
       IN  /\ lines' = st.lines
           /\ current_y' = st.y
           /\ pc' = IF overflow(st.y) THEN "content" ELSE "layout"
    /\ idx' = idx + 1
    /\ UNCHANGED <<run, sections, content_stream, objects, xref_positions, output,
                   xref_start, xref, trailer, pdf_bytes, file>>
    /\ UNCHANGED <<wrapVars, escVars>>

\* The loop ends with the list.
LayoutDone ==
    /\ pc = "layout"
    /\ idx > Len(sections)
    /\ pc' = "content"
    /\ UNCHANGED scriptVars
    /\ UNCHANGED <<wrapVars, escVars>>

\* The content stream is built from the placements and encoded.
BuildContent ==
    /\ pc = "content"
    /\ content_stream' = build_content_stream(lines)
    /\ pc' = "objects"
    /\ UNCHANGED <<run, sections, idx, current_y, lines, objects, xref_positions, output,
                   xref_start, xref, trailer, pdf_bytes, file>>
    /\ UNCHANGED <<wrapVars, escVars>>

\* The six objects.
BuildObjects ==
    /\ pc = "objects"
    /\ objects' = build_objects(content_stream)
    /\ pc' = "xref"
    /\ UNCHANGED <<run, sections, idx, current_y, lines, content_stream, xref_positions,
                   output, xref_start, xref, trailer, pdf_bytes, file>>
    /\ UNCHANGED <<wrapVars, escVars>>

\* The objects are appended to the output, their positions recorded, and the
\* cross-reference table is built.
BuildXref ==
    /\ pc = "xref"
    /\ LET st == collect([xref_positions |-> <<>>, output |-> <<PdfHeader>>], objects, 1)
       IN  /\ xref_positions' = st.xref_positions
           /\ output' = st.output
           /\ xref_start' = position(st.output)
           /\ xref' = build_xref(objects, st.xref_positions)
    /\ pc' = "trailer"
    /\ UNCHANGED <<run, sections, idx, current_y, lines, content_stream, objects,
                   trailer, pdf_bytes, file>>
    /\ UNCHANGED <<wrapVars, escVars>>

\* The trailer, and the file's bytes joined.
BuildTrailer ==
    /\ pc = "trailer"
    /\ trailer' = build_trailer(objects, xref_start)
    /\ pdf_bytes' = Join(output) \o Join(xref) \o trailer'
    /\ pc' = "write"
    /\ UNCHANGED <<run, sections, idx, current_y, lines, content_stream, objects,
                   xref_positions, output, xref_start, xref, file>>
    /\ UNCHANGED <<wrapVars, escVars>>

\* The bytes are written to the output path.
WriteFile ==
    /\ pc = "write"
    /\ file' = write_bytes(file, pdf_bytes)
    /\ pc' = "done"
    /\ UNCHANGED <<run, sections, idx, current_y, lines, content_stream, objects,
                   xref_positions, output, xref_start, xref, trailer, pdf_bytes>>
    /\ UNCHANGED <<wrapVars, escVars>>

\* The script is run a second time: a new process with the same hardcoded
\* content; only the output file is left of the first run.
RunAgain ==
    /\ pc = "done"
    /\ run = 1
    /\ run' = 2
    /\ pc' = "title"
    /\ idx' = 2
    /\ current_y' = 0
    /\ lines' = <<>>
    /\ content_stream' = <<>>
    /\ objects' = <<>>
    /\ xref_positions' = <<>>
    /\ output' = <<>>
    /\ xref_start' = 0
    /\ xref' = <<>>
    /\ trailer' = <<>>
    /\ pdf_bytes' = <<>>
    /\ UNCHANGED <<sections, file>>
    /\ UNCHANGED <<wrapVars, escVars>>

Next ==
    \/ PlaceTitle
    \/ LayoutSection
    \/ LayoutDone
    \/ BuildContent
    \/ BuildObjects
    \/ BuildXref
    \/ BuildTrailer
    \/ WriteFile
    \/ RunAgain

Spec == Init /\ [][Next]_vars

(***************************************************************************)
(* wrap and escape_pdf_text on their own                                   *)
(***************************************************************************)

InitWrap ==
    /\ pc = "wrap"
    /\ wrap_text \in SeqsUpTo(WrapAlphabet, MaxTextLen)
    /\ wrap_width \in 1..MaxWidth
    /\ wrap_lines = <<>>
    /\ IdleScript
    /\ IdleEsc

CallWrap ==
    /\ pc = "wrap"
    /\ wrap_lines' = wrap(wrap_text, wrap_width)
    /\ pc' = "wrapped"
    /\ UNCHANGED <<wrap_text, wrap_width, scriptVars, escVars>>

NextWrap == CallWrap

SpecWrap == InitWrap /\ [][NextWrap]_vars

InitEsc ==
    /\ pc = "escape"
    /\ esc_text \in SeqsUpTo(EscAlphabet, MaxEscLen)
    /\ esc_out = <<>>
    /\ IdleScript
    /\ IdleWrap

CallEscape ==
    /\ pc = "escape"
    /\ esc_out' = escape_pdf_text(esc_text)
    /\ pc' = "escaped"
    /\ UNCHANGED <<esc_text, scriptVars, wrapVars>>

NextEsc == CallEscape

SpecEsc == InitEsc /\ [][NextEsc]_vars

(***************************************************************************)
(* Reading the results back                                                *)
(***************************************************************************)

Range(s) == {s[i] : i \in 1..Len(s)}

\* The number a sequence of decimal digits writes.
RECURSIVE ParseDec(_)
ParseDec(d) ==
    IF d = <<>> THEN 0
    ELSE 10 * ParseDec(SubSeq(d, 1, Len(d) - 1)) + (d[Len(d)] - 48)

IsDigit(c) == c \in 48..57

\* The positions at which needle occurs in hay.
Occurrences(hay, needle) ==
    {i \in 1..(Len(hay) - Len(needle) + 1) :
        /\ hay[i] = needle[1]
        /\ SubSeq(hay, i, i + Len(needle) - 1) = needle}

Smallest(S) == CHOOSE i \in S : \A j \in S : i <= j

Largest(S) == CHOOSE i \in S : \A j \in S : j <= i

\* The digits of hay that start at position i.
DigitsFrom(hay, i) ==
    LET n == CHOOSE k \in 0..(Len(hay) - i + 1) :
                 /\ i + k > Len(hay) \/ ~IsDigit(hay[i + k])
                 /\ \A m \in 0..(k - 1) : IsDigit(hay[i + m])
    IN  SubSeq(hay, i, i + n - 1)

\* The digits of hay that end at position i.
DigitsUpTo(hay, i) ==
    LET n == CHOOSE k \in 0..i :
                 /\ k = i \/ ~IsDigit(hay[i - k])
                 /\ \A m \in 0..(k - 1) : IsDigit(hay[i - m])
    IN  SubSeq(hay, i - n + 1, i)

\* The words of a text: the maximal runs of characters that are not
\* whitespace, in order (str.split()).
WordsOf(text) ==
    LET starts == {i \in 1..Len(text) :
                      /\ text[i] \notin PyWhitespace
                      /\ (i = 1 \/ text[i - 1] \in PyWhitespace)}
        start(k) == CHOOSE i \in starts : Cardinality({j \in starts : j <= i}) = k
        end(i)   == Smallest({j \in i..Len(text) :
                                 j = Len(text) \/ text[j + 1] \in PyWhitespace})
    IN  [k \in 1..Cardinality(starts) |-> SubSeq(text, start(k), end(start(k)))]

\* " ".join(parts)
JoinWithSpaces(parts) ==
    Join([i \in 1..Len(parts) |-> IF i = 1 THEN parts[i] ELSE <<32>> \o parts[i]])

\* The escape pairs of an escaped text undone, read from the left; a
\* backslash that starts no pair stays.
RECURSIVE Unescape(_)
Unescape(s) ==
    IF s = <<>> THEN <<>>
    ELSE IF s[1] = 92 /\ Len(s) >= 2 /\ s[2] \in {92, 40, 41}
    THEN <<s[2]>> \o Unescape(SubSeq(s, 3, Len(s)))
    ELSE <<s[1]>> \o Unescape(Tail(s))

\* Read from the left, every backslash starts an escape pair and no
\* parenthesis stands outside a pair.
RECURSIVE WellEscaped(_)
WellEscaped(s) ==
    IF s = <<>> THEN TRUE
    ELSE IF s[1] = 92
    THEN Len(s) >= 2 /\ s[2] \in {92, 40, 41} /\ WellEscaped(SubSeq(s, 3, Len(s)))
    ELSE s[1] \notin {40, 41} /\ WellEscaped(Tail(s))

(***************************************************************************)
(* The layout's input and result, section by section                       *)
(***************************************************************************)

\* The loop over sections[1:] has ended in this run.
LoopOver == pc \in {"content", "objects", "xref", "trailer", "write", "done"}

\* The texts a section draws: its heading, then its body lines or the
\* wrapped and prefixed lines of its items.
ItemTexts(item) ==
    LET wrapped == wrap(item, MAX_CHARS_BODY_INDENT)
    IN  [i \in 1..Len(wrapped) |->
            (IF i = 1 THEN <<45, 32>> ELSE <<32, 32>>) \o wrapped[i]]

SectionTexts(section) ==
    <<section.title>>
        \o (IF section.type = "section" THEN section.body
            ELSE Join([k \in 1..Len(section.items) |-> ItemTexts(section.items[k])]))

\* The texts of the first m sections after the title.
TextsOfFirst(m) == Join([j \in 1..m |-> SectionTexts(sections[j + 1])])

\* The number of sections after the title.
NSections == Len(sections) - 1

\* The texts placed after the title.
PlacedTexts == [i \in 1..(Len(lines) - 1) |-> lines[i + 1].text]

\* Where the cursor stands when the first m sections are finished.
RECURSIVE CursorAfter(_)
CursorAfter(m) ==
    IF m = 0 THEN PAGE_HEIGHT - MARGIN_TOP - 22
    ELSE CursorAfter(m - 1) - 16 - 14 * (Len(SectionTexts(sections[m + 1])) - 1) - 4

\* The placed lines are the whole of the first m sections, for some m.
EndsAtSectionBoundary == \E m \in 0..NSections : PlacedTexts = TextsOfFirst(m)

\* The cursor falls below the bottom margin before the last section is finished.
OverflowsPage == \E m \in 1..NSections : CursorAfter(m) < 54

\* The cursor is below the bottom margin when a section before the last is finished.
OverflowsBeforeLast == \E m \in 1..(NSections - 1) : CursorAfter(m) < 54

IsHeading(i) == i > 1 /\ lines[i].font = HelveticaBold /\ lines[i].size = HEADING_SIZE

\* The number of body or bullet lines that follow the heading at h.
LinesOf(h) ==
    Smallest({n \in 0..(Len(lines) - h) : h + n = Len(lines) \/ IsHeading(h + n + 1)})

(***************************************************************************)
(* The claims                                                              *)
(***************************************************************************)

\* C1 as stated: when the cursor falls below the bottom margin of 54 before
\* the last section is finished, strictly fewer lines are drawn than the
\* input contains, and the drawn lines end at a section boundary.
C1_AsStated ==
    (LoopOver /\ OverflowsPage)
        => (Len(PlacedTexts) < Len(TextsOfFirst(NSections)) /\ EndsAtSectionBoundary)

\* C1 amended: the drawn lines always end at a section boundary (each
\* section is placed whole or not at all), and strictly fewer lines are
\* drawn than the input contains when the cursor is below the bottom margin
\* at the end of a section that is not the last.
C1_OverflowTruncation ==
    LoopOver
        => /\ EndsAtSectionBoundary
           /\ OverflowsBeforeLast => Len(PlacedTexts) < Len(TextsOfFirst(NSections))

C1_Witness ==
    /\ pc = "done"
    /\ OverflowsBeforeLast
    /\ Len(PlacedTexts) < Len(TextsOfFirst(NSections))
    /\ Len(lines) > LongLines

\* C2 as stated: every line wrap returns has length <= width.
C2_AsStated ==
    pc = "wrapped" => \A i \in 1..Len(wrap_lines) : Len(wrap_lines[i]) <= wrap_width

\* C2 amended: every line wrap returns has length <= width, unless it is a
\* single word (it holds no space, tab, newline, VT, FF or CR) that is
\* itself longer than width.
C2_LineLength ==
    pc = "wrapped"
        => \A i \in 1..Len(wrap_lines) :
               \/ Len(wrap_lines[i]) <= wrap_width
               \/ \A j \in 1..Len(wrap_lines[i]) : wrap_lines[i][j] \notin TextwrapWhitespace

C2_Witness ==
    /\ pc = "wrapped"
    /\ Len(wrap_lines) >= 2
    /\ \E i \in 1..Len(wrap_lines) : Len(wrap_lines[i]) > wrap_width
    /\ \E i \in 1..Len(wrap_lines) : Len(wrap_lines[i]) <= wrap_width

\* C3: the lines wrap returns, joined with single spaces, hold the words of
\* the input, each whole, in the same order, none dropped and none twice.
C3_WrapPreservesWords ==
    pc = "wrapped"
        => /\ WordsOf(JoinWithSpaces(wrap_lines)) = WordsOf(wrap_text)
           /\ Join([i \in 1..Len(wrap_lines) |-> WordsOf(wrap_lines[i])]) = WordsOf(wrap_text)

C3_Witness ==
    /\ pc = "wrapped"
    /\ Len(wrap_lines) = 2
    /\ Len(WordsOf(wrap_text)) = 2
    /\ \E i \in 1..2 : Len(wrap_lines[i]) > wrap_width /\ 45 \in Range(wrap_lines[i])

\* C4: the escaped text holds no parenthesis or backslash outside an escape
\* pair, and undoing the pairs from the left gives the text back.
C4_EscapeRoundTrip ==
    pc = "escaped" => (WellEscaped(esc_out) /\ Unescape(esc_out) = esc_text)

C4_Witness ==
    /\ pc = "escaped"
    /\ {92, 40, 41} \subseteq Range(esc_text)
    /\ Len(esc_out) = 2 * Len(esc_text) - 1

(***************************************************************************)
(* The written file, read back                                             *)
(***************************************************************************)

\* The offset of the "xref" keyword that starts a line of the file.
XrefOffset ==
    Largest({i \in Occurrences(file, XrefKeyword) : file[i - 1] = 10}) - 1

\* The subsection header after the keyword, up to and including its newline.
XrefHeaderLine ==
    LET from == XrefOffset + Len(XrefKeyword) + 1
        nl   == Smallest({j \in from..Len(file) : file[j] = 10})
    IN  SubSeq(file, from, nl)

\* The offset written in the n-th in-use entry of the table.
XrefEntryOffset(n) ==
    LET from == XrefOffset + Len(XrefKeyword) + Len(XrefHeaderLine) + 20 * n + 1
    IN  ParseDec(SubSeq(file, from, from + 9))

\* "<n> 0 obj"
ObjTag(n) == ToDec(n) \o <<32, 48, 32, 111, 98, 106>>

\* The offset of the "trailer" keyword.
TrailerOffset == Largest(Occurrences(file, <<116, 114, 97, 105, 108, 101, 114, 10>>)) - 1

\* The number written after "startxref": the digits before "\n%%EOF\n".
StartxrefValue == ParseDec(DigitsUpTo(file, Len(file) - Len(TrailerTail) - 1))

\* The position after "stream\n" and the position of "endstream".
StreamFrom == Smallest(Occurrences(file, <<10, 115, 116, 114, 101, 97, 109, 10>>)) + 8

StreamEnd == Largest(Occurrences(file, <<101, 110, 100, 115, 116, 114, 101, 97, 109>>))

\* The number written after "/Length ".
LengthValue ==
    LET at == Smallest(Occurrences(file, <<47, 76, 101, 110, 103, 116, 104, 32>>))
    IN  ParseDec(DigitsFrom(file, at + 8))

\* C5: for every object number n in 1..6, the offset in the n-th in-use
\* entry of the cross-reference table of the file is the byte position at
\* which "<n> 0 obj" begins.
C5_XrefIntegrity ==
    pc = "done"
        => \A n \in 1..6 :
               LET off == XrefEntryOffset(n)
               IN  SubSeq(file, off + 1, off + Len(ObjTag(n))) = ObjTag(n)

C5_Witness ==
    /\ pc = "done"
    /\ XrefEntryOffset(6) = xref_positions[6]
    /\ Len(content_stream) > 1000
    /\ Len(lines) > LongLines

\* C6: the /Length written in object 6 is the number of bytes between the
\* end of "stream\n" and the start of "endstream".
C6_StreamLength == pc = "done" => LengthValue = StreamEnd - StreamFrom

C6_Witness ==
    /\ pc = "done"
    /\ LengthValue = Len(content_stream)
    /\ \E i \in 1..Len(lines) : 8212 \in Range(lines[i].text)
    /\ \E i \in 1..Len(lines) : 92 \in Range(lines[i].text)
    /\ Occurrences(file, <<233, 63, 252>>) # {}

\* C8: the number after "startxref" is the byte position of the "xref"
\* keyword, the header's length plus the lengths of the six objects; the
\* table declares 7 entries and holds 7, and /Size is 7.
C8_TrailerStart ==
    pc = "done"
        => /\ SubSeq(file, StartxrefValue + 1, StartxrefValue + 5) = XrefKeyword
           /\ StartxrefValue = XrefOffset
           /\ StartxrefValue = Len(PdfHeader) + sum_len(objects, 1)
           /\ Len(objects) = 6
           /\ XrefHeaderLine = <<48, 32, 55, 10>>
           /\ TrailerOffset - (XrefOffset + Len(XrefKeyword) + Len(XrefHeaderLine)) = 7 * 20
           /\ SubSeq(file, TrailerOffset + 1, TrailerOffset + Len(TrailerHead) + 2)
                  = TrailerHead \o <<55, 32>>

C8_Witness ==
    /\ pc = "done"
    /\ StartxrefValue = xref_start
    /\ StartxrefValue > 1000
    /\ run = 1

\* C9: the title is at y = 738 and the first heading 22 lower; the k-th line
\* of a section is at heading_y - 16 - 14*(k-1) and the next heading at
\* heading_y - 16 - 14*n - 4; the y coordinates strictly decrease in
\* placement order and every x is MARGIN_X.
C9_CursorArithmetic ==
    lines # <<>>
        => /\ lines[1].y = 738
           /\ Len(lines) >= 2 => (IsHeading(2) /\ lines[2].y = lines[1].y - 22)
           /\ \A h \in 2..Len(lines) :
                  IsHeading(h)
                      => LET n == LinesOf(h)
                         IN  /\ \A k \in 1..n :
                                    lines[h + k].y = lines[h].y - 16 - 14 * (k - 1)
                             /\ h + n + 1 <= Len(lines)
                                    => lines[h + n + 1].y = lines[h].y - 16 - 14 * n - 4
           /\ \A i \in 1..(Len(lines) - 1) : lines[i + 1].y < lines[i].y
           /\ \A i \in 1..Len(lines) : lines[i].x = MARGIN_X

C9_Witness ==
    /\ pc = "content"
    /\ sections = HardcodedSections
    /\ Len(lines) = 31
    /\ \E h \in 2..Len(lines) :
           /\ IsHeading(h)
           /\ LinesOf(h) = 11
           /\ IsHeading(h + 12)
           /\ SubSeq(lines[h + 2].text, 1, 2) = <<32, 32>>

\* No heading is below the bottom margin, and a line below it belongs to the
\* last section that was processed.
HeadingsAboveMargin ==
    \A i \in 1..Len(lines) :
        /\ IsHeading(i) => lines[i].y >= MARGIN_BOTTOM
        /\ lines[i].y < MARGIN_BOTTOM
               => /\ i > 1
                  /\ ~IsHeading(i)
                  /\ \A j \in (i + 1)..Len(lines) : ~IsHeading(j)

\* With the cursor below the bottom margin at the end of a section, a step
\* of the run appends no placement.
NoPlacementBelowMargin ==
    (pc # "title" /\ current_y < MARGIN_BOTTOM /\ run' = run) => lines' = lines

\* C10: every heading placed has y >= MARGIN_BOTTOM; once the cursor is
\* below the bottom margin at the end of a section nothing is placed again,
\* so only lines of the last processed section can lie below the margin.
C10_HeadingsAboveMargin == []HeadingsAboveMargin /\ [][NoPlacementBelowMargin]_vars

C10_Witness ==
    /\ pc = "done"
    /\ idx <= Len(sections)
    /\ \E i \in 1..Len(lines) : lines[i].y < MARGIN_BOTTOM

=============================================================================
